---------------------------- MODULE Spec2Model ----------------------------
(***************************************************************************)
(* Availability and booking core of SkillSetu.                             *)
(*                                                                         *)
(* Instants are whole minutes since the epoch, read in the server's local  *)
(* zone (a fixed offset, no daylight saving).  Minute 0 is Thursday 00:00, *)
(* as 1970-01-01 was.  Text values ("HH:MM") are sequences of character     *)
(* codes: the digits 0..9 stand for themselves and 10 stands for ':' ,     *)
(* which sorts after '9' as it does in ASCII.                              *)
(***************************************************************************)
EXTENDS Integers, Sequences, FiniteSets, TLC

VARIABLES
    now,              \* the wall clock, new Date()
    lessons,          \* table Lesson
    blockedTimes,     \* table BlockedTime
    availabilities,   \* table Availability
    bookingSettings,  \* table BookingSettings: userId -> row or NoRow
    pc,               \* POST /api/lessons: where each request in flight stands
    body,             \* POST /api/lessons: the validated body of each request
    last              \* the outcome of the most recent call or handler step

vars == <<now, lessons, blockedTimes, availabilities, bookingSettings, pc, body, last>>

store == <<lessons, blockedTimes, availabilities, bookingSettings>>

\* ------------------------------------------------------------------------
\* Values
\* ------------------------------------------------------------------------

NoRow == [bufferMinutes |-> -1, minAdvanceHours |-> -1, maxAdvanceDays |-> -1,
          allowedDurations |-> <<>>]

NullText == "<null>"

Undefined == [text |-> "<undefined>", args |-> <<>>]

LessonStatus == {"PENDING", "CONFIRMED", "COMPLETED", "CANCELLED", "EXPIRED"}

Users == {"t1", "t2"}

\* The database as the core reads it.
DB == [lessons |-> lessons, blockedTimes |-> blockedTimes,
       availabilities |-> availabilities, bookingSettings |-> bookingSettings]

\* ------------------------------------------------------------------------
\* Date and text helpers
\* ------------------------------------------------------------------------

At(day, hh, mm) == day * 1440 + hh * 60 + mm

getDay(t) == ((t \div 1440) + 4) % 7

getHours(t) == (t % 1440) \div 60

getMinutes(t) == t % 60

\* n.toString().padStart(2, '0') for 0 <= n <= 99
padStart2(n) == <<n \div 10, n % 10>>

Colon == <<10>>

\* `${hours padded}:${minutes padded}`
timeStr(hh, mm) == padStart2(hh) \o Colon \o padStart2(mm)

\* The database's text order: lexicographic by character code.
TextLt(a, b) ==
    \E i \in 1..(Len(a) + 1) :
        /\ \A j \in 1..(i - 1) : j <= Len(b) /\ a[j] = b[j]
        /\ \/ i = Len(a) + 1 /\ Len(b) >= i
           \/ i <= Len(a) /\ i <= Len(b) /\ a[i] < b[i]

TextLte(a, b) == a = b \/ TextLt(a, b)

\* ------------------------------------------------------------------------
\* Time utilities (src/lib/availability.ts)
\* ------------------------------------------------------------------------

\* time.split(':'): the parts between the colons
split(time) ==
    LET colons == {i \in 1..Len(time) : time[i] = 10}
        cut(k) == IF k = 0 THEN 0
                  ELSE IF k > Cardinality(colons) THEN Len(time) + 1
                  ELSE CHOOSE i \in colons : Cardinality({j \in colons : j < i}) = k - 1
    IN  [k \in 1..(Cardinality(colons) + 1) |->
            SubSeq(time, cut(k - 1) + 1, cut(k) - 1)]

\* NaN.  No text gives a negative number (the texts hold digits, colons and
\* letters, no sign), so a negative value stands for it.
NaN == -1

\* Number(text): the value of a run of digits, 0 for "", NaN for a text with
\* a character that is not a digit
RECURSIVE Number(_)
Number(digits) ==
    IF Len(digits) = 0 THEN 0
    ELSE LET front == Number(SubSeq(digits, 1, Len(digits) - 1))
         IN  IF front = NaN \/ digits[Len(digits)] \notin 0..9 THEN NaN
             ELSE 10 * front + digits[Len(digits)]

\* const [hours, minutes] = time.split(':').map(Number): minutes is
\* undefined when the text has no colon, and arithmetic on it gives NaN
timeToMinutes(time) ==
    LET hours   == Number(split(time)[1])
        minutes == IF Len(split(time)) >= 2 THEN Number(split(time)[2]) ELSE NaN
    IN  IF hours = NaN \/ minutes = NaN THEN NaN ELSE hours * 60 + minutes

\* n.toString() for 0 <= n <= 99
toString(n) == IF n < 10 THEN <<n>> ELSE <<n \div 10, n % 10>>

\* A faulty variant: the padding with '0' lost
minutesToTime_NoPad(minutes) ==
    toString(minutes \div 60) \o Colon \o toString(minutes % 60)

\* Math.floor(minutes / 60) and minutes % 60, each padded to two digits
minutesToTime(minutes) ==
    padStart2(minutes \div 60) \o Colon \o padStart2(minutes % 60)

\* A faulty variant: touching intervals overlap
timeRangesOverlap_Touching(start1, end1, start2, end2) == start1 <= end2 /\ start2 <= end1

timeRangesOverlap(start1, end1, start2, end2) == start1 < end2 /\ start2 < end1


\* ------------------------------------------------------------------------
\* isTeacherAvailable (src/lib/availability.ts)
\* ------------------------------------------------------------------------

Unavailable(text, args) == [available |-> FALSE, reason |-> [text |-> text, args |-> args]]

Available == [available |-> TRUE, reason |-> Undefined]

\* a || b on text: null and the empty text are falsy
OrText(a, b) == IF a = NullText \/ a = "" THEN b ELSE a

\* A faulty variant: the status filter lost
conflictingLesson_AnyStatus(db, teacherId, startTime, endTime) ==
    {l \in db.lessons :
        /\ l.teacherId = teacherId
        /\ l.scheduledAt >= startTime
        /\ l.scheduledAt < endTime}

\* 1. prisma.lesson.findFirst: the rows the query matches
conflictingLesson(db, teacherId, startTime, endTime) ==
    {l \in db.lessons :
        /\ l.teacherId = teacherId
        /\ l.status \in {"PENDING", "CONFIRMED"}
        /\ l.scheduledAt >= startTime
        /\ l.scheduledAt < endTime}

\* A faulty variant: any overlap with a blocked time, instead of containment
blockedTime_Overlap(db, teacherId, startTime, endTime) ==
    {b \in db.blockedTimes :
        /\ b.userId = teacherId
        /\ b.startTime < endTime
        /\ b.endTime > startTime}

\* 2. prisma.blockedTime.findFirst: the rows the query matches
blockedTime(db, teacherId, startTime, endTime) ==
    {b \in db.blockedTimes :
        /\ b.userId = teacherId
        /\ b.startTime <= startTime
        /\ b.endTime >= endTime}

\* A faulty variant: the isAvailable filter lost
availability_AnyRule(db, teacherId, startTime, endTime) ==
    LET dayOfWeek    == getDay(startTime)
        startTimeStr == timeStr(getHours(startTime), getMinutes(startTime))
        endTimeStr   == timeStr(getHours(endTime), getMinutes(endTime))
    IN  {a \in db.availabilities :
            /\ a.userId = teacherId
            /\ a.dayOfWeek = dayOfWeek
            /\ TextLte(a.startTime, startTimeStr)
            /\ TextLte(endTimeStr, a.endTime)}

\* 3. prisma.availability.findFirst: the rows the query matches
availability(db, teacherId, startTime, endTime) ==
    LET dayOfWeek    == getDay(startTime)
        startTimeStr == timeStr(getHours(startTime), getMinutes(startTime))
        endTimeStr   == timeStr(getHours(endTime), getMinutes(endTime))
    IN  {a \in db.availabilities :
            /\ a.userId = teacherId
            /\ a.dayOfWeek = dayOfWeek
            /\ a.isAvailable = TRUE
            /\ TextLte(a.startTime, startTimeStr)
            /\ TextLte(endTimeStr, a.endTime)}

\* A faulty variant: the advance-notice comparison off by one: <= for <
settingsCheck_NoticeLte(db, clock, teacherId, startTime) ==
    LET settings == db.bookingSettings[teacherId]
        minutesUntilLesson == startTime - clock
    IN  IF settings # NoRow
        THEN IF minutesUntilLesson <= settings.minAdvanceHours * 60
             THEN [available |-> FALSE,
                   reason |-> [text |-> "Need at least N hours advance notice",
                               args |-> <<settings.minAdvanceHours>>]]
             ELSE IF minutesUntilLesson > settings.maxAdvanceDays * 24 * 60
                  THEN [available |-> FALSE,
                        reason |-> [text |-> "Can only book up to N days in advance",
                                    args |-> <<settings.maxAdvanceDays>>]]
                  ELSE [available |-> TRUE, reason |-> Undefined]
        ELSE [available |-> TRUE, reason |-> Undefined]

\* 4. the advance-notice and horizon checks, made only when a settings row exists.
\* hoursUntilLesson is (startTime - now) / 60 minutes and daysUntilLesson is that
\* over 24; both comparisons are written here on whole minutes.
settingsCheck(db, clock, teacherId, startTime) ==
    LET settings == db.bookingSettings[teacherId]
        minutesUntilLesson == startTime - clock
    IN  IF settings # NoRow
        THEN IF minutesUntilLesson < settings.minAdvanceHours * 60
             THEN Unavailable("Need at least N hours advance notice",
                              <<settings.minAdvanceHours>>)
             ELSE IF minutesUntilLesson > settings.maxAdvanceDays * 24 * 60
                  THEN Unavailable("Can only book up to N days in advance",
                                   <<settings.maxAdvanceDays>>)
                  ELSE Available
        ELSE Available

\* A faulty variant: the blocked-time step run before the lesson-conflict step
isTeacherAvailable_BlockedFirst(db, clock, teacherId, startTime, endTime) ==
    IF blockedTime(db, teacherId, startTime, endTime) # {}
    THEN {Unavailable(OrText(b.reason, "Teacher is unavailable at this time"), <<>>) :
             b \in blockedTime(db, teacherId, startTime, endTime)}
    ELSE IF conflictingLesson(db, teacherId, startTime, endTime) # {}
    THEN {Unavailable("Teacher has another lesson at this time", <<>>)}
    ELSE IF availability(db, teacherId, startTime, endTime) = {}
    THEN {Unavailable("Outside teacher's regular availability", <<>>)}
    ELSE {settingsCheck(db, clock, teacherId, startTime)}

\* The results the call can return.  findFirst has no orderBy, so with several
\* matching blocked times any of them may be the one whose reason is reported.
isTeacherAvailable(db, clock, teacherId, startTime, endTime) ==
    IF conflictingLesson(db, teacherId, startTime, endTime) # {}
    THEN {Unavailable("Teacher has another lesson at this time", <<>>)}
    ELSE IF blockedTime(db, teacherId, startTime, endTime) # {}
    THEN {Unavailable(OrText(b.reason, "Teacher is unavailable at this time"), <<>>) :
             b \in blockedTime(db, teacherId, startTime, endTime)}
    ELSE IF availability(db, teacherId, startTime, endTime) = {}
    THEN {Unavailable("Outside teacher's regular availability", <<>>)}
    ELSE {settingsCheck(db, clock, teacherId, startTime)}

\* ------------------------------------------------------------------------
\* validateBooking (src/lib/availability.ts)
\* ------------------------------------------------------------------------

Includes(seq, x) == \E i \in 1..Len(seq) : seq[i] = x

\* 1. Check if time is in the past
pastError(clock, startTime) ==
    IF startTime < clock
    THEN <<[text |-> "Cannot book lessons in the past", args |-> <<>>]>>
    ELSE <<>>

\* 2. Check teacher availability: reason || 'Teacher not available'
reasonError(verdict) ==
    IF ~verdict.available
    THEN <<IF verdict.reason = Undefined \/ verdict.reason.text = ""
           THEN [text |-> "Teacher not available", args |-> <<>>]
           ELSE verdict.reason>>
    ELSE <<>>

\* A faulty variant: the test for a settings row lost
durationError_WithoutRow(db, teacherId, duration) ==
    IF ~Includes(db.bookingSettings[teacherId].allowedDurations, duration)
    THEN <<[text |-> "Duration must be one of: L minutes",
            args |-> db.bookingSettings[teacherId].allowedDurations]>>
    ELSE <<>>

\* 3. Check duration is allowed
durationError(db, teacherId, duration) ==
    LET settings == db.bookingSettings[teacherId]
    IN  IF settings # NoRow /\ ~Includes(settings.allowedDurations, duration)
        THEN <<[text |-> "Duration must be one of: L minutes",
                args |-> settings.allowedDurations]>>
        ELSE <<>>

\* A faulty variant: hour 23 refused
hourError_From23(startTime) ==
    IF getHours(startTime) < 6 \/ getHours(startTime) >= 23
    THEN <<[text |-> "Please select a time between 6 AM and 11 PM", args |-> <<>>]>>
    ELSE <<>>

\* 4. Check if it's a reasonable time
hourError(startTime) ==
    LET hour == getHours(startTime)
    IN  IF hour < 6 \/ hour > 23
        THEN <<[text |-> "Please select a time between 6 AM and 11 PM", args |-> <<>>]>>
        ELSE <<>>

\* A faulty variant: only the first error is reported
validateBookingErrors_ShortCircuit(db, clock, teacherId, startTime, duration, verdict) ==
    LET all == pastError(clock, startTime) \o reasonError(verdict)
                 \o durationError(db, teacherId, duration) \o hourError(startTime)
    IN  IF all = <<>> THEN <<>> ELSE <<all[1]>>

\* The errors pushed, in the order of the four checks.
validateBookingErrors(db, clock, teacherId, startTime, duration, verdict) ==
    pastError(clock, startTime) \o reasonError(verdict)
        \o durationError(db, teacherId, duration) \o hourError(startTime)

\* The results the call can return, one per verdict isTeacherAvailable can give.
validateBooking(db, clock, teacherId, startTime, duration) ==
    {[valid  |-> Len(validateBookingErrors(db, clock, teacherId, startTime, duration, v)) = 0,
      errors |-> validateBookingErrors(db, clock, teacherId, startTime, duration, v)] :
        v \in isTeacherAvailable(db, clock, teacherId, startTime, startTime + duration)}


\* ------------------------------------------------------------------------
\* generateTimeSlots (src/lib/availability.ts)
\* ------------------------------------------------------------------------

\* A faulty variant: the isAvailable filter of the query lost
activeRules_AnyRule(db, teacherId) ==
    {a \in db.availabilities : a.userId = teacherId}

\* 1. prisma.availability.findMany: the active rules of the teacher
activeRules(db, teacherId) ==
    {a \in db.availabilities : a.userId = teacherId /\ a.isAvailable = TRUE}

\* A faulty variant: the buffer left out of the step
slotInterval_NoBuffer(db, teacherId, duration) == duration

\* 2. settings?.bufferMinutes || 15, added to the duration: a missing row and a
\* bufferMinutes of 0 are both falsy
slotInterval(db, teacherId, duration) ==
    LET settings == db.bookingSettings[teacherId]
        bufferMinutes == IF settings = NoRow \/ settings.bufferMinutes = 0
                         THEN 15 ELSE settings.bufferMinutes
    IN  duration + bufferMinutes

\* currentDate.setHours(0, 0, 0, 0)
startOfDay(t) == t - (t % 1440)

\* The slot the loop body builds for one value of `minutes`.
slotAt(db, clock, teacherId, currentDate, minutes, duration) ==
    LET slotStart == currentDate + minutes
        slotEnd   == slotStart + duration
    IN  [startTime |-> slotStart, endTime |-> slotEnd,
         available |-> \A r \in isTeacherAvailable(db, clock, teacherId,
                                                   slotStart, slotEnd) : r.available]

\* A faulty variant: slots in the past are kept
daySlots_KeepPast(db, clock, teacherId, currentDate, minutes, endMinutes, duration, step) ==
    LET n == IF minutes + duration <= endMinutes
             THEN ((endMinutes - duration - minutes) \div step) + 1
             ELSE 0
    IN  [k \in 1..n |-> slotAt(db, clock, teacherId, currentDate,
                               minutes + (k - 1) * step, duration)]

\* The for loop over one day, for a step above zero: `minutes` takes the n values
\* minutes, minutes + step, ... for which minutes + duration <= endMinutes, and
\* a slot is pushed for each unless it starts before the clock.
daySlots(db, clock, teacherId, currentDate, minutes, endMinutes, duration, step) ==
    LET n == IF minutes + duration <= endMinutes
             THEN ((endMinutes - duration - minutes) \div step) + 1
             ELSE 0
        visited == [k \in 1..n |-> slotAt(db, clock, teacherId, currentDate,
                                          minutes + (k - 1) * step, duration)]
    IN  SelectSeq(visited, LAMBDA slot : ~(slot.startTime < clock))

\* The while loop over the days, from currentDate on.  `first` gives, for a day of
\* the week, the rule availabilities.find returns.
RECURSIVE dayLoop(_, _, _, _, _, _, _)
dayLoop(db, clock, teacherId, currentDate, endDate, duration, first) ==
    IF currentDate <= endDate
    THEN LET dayOfWeek == getDay(currentDate)
             today == IF dayOfWeek \in DOMAIN first
                      THEN daySlots(db, clock, teacherId, currentDate,
                                    timeToMinutes(first[dayOfWeek].startTime),
                                    timeToMinutes(first[dayOfWeek].endTime),
                                    duration, slotInterval(db, teacherId, duration))
                      ELSE <<>>
         IN  today \o dayLoop(db, clock, teacherId, currentDate + 1440, endDate,
                              duration, first)
    ELSE <<>>

\* findMany has no orderBy: of several active rules of one day of the week, any
\* may be the one availabilities.find meets first.
firstRules(db, teacherId) ==
    LET days == {a.dayOfWeek : a \in activeRules(db, teacherId)}
    IN  {f \in [days -> activeRules(db, teacherId)] : \A d \in days : f[d].dayOfWeek = d}

\* The for loop of some day never ends: with a step of zero or less, `minutes`
\* never grows, so a loop condition that holds once holds for ever.
divergesWith(db, teacherId, startDate, endDate, duration, first) ==
    /\ slotInterval(db, teacherId, duration) <= 0
    /\ \E a \in {first[d] : d \in DOMAIN first} :
          /\ timeToMinutes(a.startTime) + duration <= timeToMinutes(a.endTime)
          /\ \E k \in 0..6 :
                /\ startOfDay(startDate) + k * 1440 <= endDate
                /\ getDay(startOfDay(startDate) + k * 1440) = a.dayOfWeek

\* The call can fail to return.
generateTimeSlotsDiverges(db, teacherId, startDate, endDate, duration) ==
    \E f \in firstRules(db, teacherId) :
        divergesWith(db, teacherId, startDate, endDate, duration, f)

\* The lists the call can return.
generateTimeSlots(db, clock, teacherId, startDate, endDate, duration) ==
    IF activeRules(db, teacherId) = {}
    THEN {<<>>}
    ELSE {dayLoop(db, clock, teacherId, startOfDay(startDate), endDate, duration, f) :
             f \in {g \in firstRules(db, teacherId) :
                       ~divergesWith(db, teacherId, startDate, endDate, duration, g)}}

\* ------------------------------------------------------------------------
\* Bounds and the rows the tables are drawn from.
\* Day 1 is a Friday (getDay 5), day 2 a Saturday (getDay 6).
\* ------------------------------------------------------------------------

MaxLessons == 1

MaxBlocked == 1

MaxRules == 1

Lesson(id, teacherId, scheduledAt, duration, status) ==
    [id |-> id, teacherId |-> teacherId, scheduledAt |-> scheduledAt,
     duration |-> duration, status |-> status]

Blocked(userId, startTime, endTime, reason) ==
    [userId |-> userId, startTime |-> startTime, endTime |-> endTime, reason |-> reason]

Rule(userId, dayOfWeek, startTime, endTime, isAvailable) ==
    [userId |-> userId, dayOfWeek |-> dayOfWeek, startTime |-> startTime,
     endTime |-> endTime, isAvailable |-> isAvailable]

Settings(bufferMinutes, minAdvanceHours, maxAdvanceDays, allowedDurations) ==
    [bufferMinutes |-> bufferMinutes, minAdvanceHours |-> minAdvanceHours,
     maxAdvanceDays |-> maxAdvanceDays, allowedDurations |-> allowedDurations]

\* The column defaults of table BookingSettings, which are also the values the
\* settings endpoints report for a teacher without a row.
DefaultSettings == Settings(15, 24, 90, <<30, 60, 90, 120>>)

LessonPool ==
    { Lesson(1, "t1", At(2, 9, 30), 60, "PENDING"),
      Lesson(2, "t1", At(2, 10, 0), 60, "CONFIRMED"),
      Lesson(3, "t1", At(2, 10, 0), 60, "CANCELLED"),
      Lesson(4, "t1", At(2, 10, 15), 30, "COMPLETED"),
      Lesson(5, "t1", At(2, 10, 0), 30, "EXPIRED"),
      Lesson(6, "t2", At(2, 10, 0), 60, "PENDING") }

BlockedPool ==
    { Blocked("t1", At(2, 9, 0), At(2, 12, 0), "Vacation"),
      Blocked("t1", At(2, 10, 0), At(2, 11, 0), NullText),
      Blocked("t1", At(2, 9, 30), At(2, 10, 30), ""),
      Blocked("t2", At(2, 0, 0), At(3, 0, 0), "Busy") }

RulePool ==
    { Rule("t1", 6, timeStr(9, 0), timeStr(17, 0), TRUE),
      Rule("t1", 6, timeStr(0, 0), timeStr(23, 59), FALSE),
      Rule("t1", 5, timeStr(0, 0), timeStr(23, 59), TRUE),
      Rule("t2", 6, timeStr(0, 0), timeStr(23, 59), TRUE),
      Rule("t1", 6, timeStr(5, 0), timeStr(23, 59), TRUE),
      Rule("t1", 6, timeStr(10, 0), timeStr(10, 45), TRUE) }

SettingsPool ==
    { NoRow, Settings(0, 48, 1, <<30, 60, 90, 120>>), Settings(30, 1, 1, <<30, 45>>) }

\* Users whose role is TEACHER or BOTH; "s1" is a student.
Teachers == Users

UpTo(pool, n) == {t \in SUBSET pool : Cardinality(t) <= n}

\* The instants the clock passes through: 26 hours, exactly 24 hours, exactly
\* 1 hour and 15 minutes before Saturday 10:00.
NowValues == <<At(1, 8, 0), At(1, 10, 0), At(2, 9, 0), At(2, 9, 45)>>

\* The candidate start instants and durations of the calls.
Candidates ==
    { <<At(2, 5, 30), 45>>,
      <<At(2, 9, 30), 30>>, <<At(2, 9, 30), 45>>, <<At(2, 9, 30), 60>>,
      <<At(2, 10, 0), 30>>, <<At(2, 10, 0), 45>>, <<At(2, 10, 0), 60>>,
      <<At(2, 23, 30), 30>>, <<At(2, 23, 30), 60>> }

\* The teacher the calls ask about; the other user's rows are in the tables too.
Callers == {"t1"}

Idle == [op |-> "none", args |-> <<>>, result |-> <<>>]

Requests == {"r1", "r2"}

NoBody == [teacherId |-> "", scheduledAt |-> 0, duration |-> 0]

\* ------------------------------------------------------------------------
\* The core, called on a database drawn from the pools
\* ------------------------------------------------------------------------

InitCore ==
    /\ now = NowValues[1]
    /\ lessons \in UpTo(LessonPool, MaxLessons)
    /\ blockedTimes \in UpTo(BlockedPool, MaxBlocked)
    /\ availabilities \in UpTo(RulePool, MaxRules)
    /\ \E s \in SettingsPool : bookingSettings = [u \in Users |-> IF u = "t1" THEN s ELSE NoRow]
    /\ pc = [r \in Requests |-> "idle"]
    /\ body = [r \in Requests |-> NoBody]
    /\ last = Idle

\* Time passes.
Tick ==
    /\ \E i \in 1..(Len(NowValues) - 1) : now = NowValues[i] /\ now' = NowValues[i + 1]
    /\ last' = Idle
    /\ UNCHANGED <<store, pc, body>>

\* One call is observed per instant: last holds its outcome until the clock moves.
CallIsTeacherAvailable ==
    /\ last = Idle
    /\ \E teacherId \in Callers, c \in Candidates :
        \E r \in isTeacherAvailable(DB, now, teacherId, c[1], c[1] + c[2]) :
            /\ last' = [op |-> "isTeacherAvailable",
                        args |-> <<teacherId, c[1], c[1] + c[2]>>,
                        result |-> r]
            /\ UNCHANGED <<now, store, pc, body>>

\* A faulty variant: a call that is found valid books the lesson itself
CallValidateBooking_Writes ==
    /\ last = Idle
    /\ \E teacherId \in Callers, c \in Candidates :
        \E r \in validateBooking(DB, now, teacherId, c[1], c[2]) :
            /\ last' = [op |-> "validateBooking",
                        args |-> <<teacherId, c[1], c[2]>>,
                        result |-> r]
            /\ lessons' = IF r.valid
                          THEN lessons \cup {[id |-> 0, teacherId |-> teacherId,
                                               scheduledAt |-> c[1], duration |-> c[2],
                                               status |-> "PENDING"]}
                          ELSE lessons
            /\ UNCHANGED <<now, blockedTimes, availabilities, bookingSettings, pc, body>>

CallValidateBooking ==
    /\ last = Idle
    /\ \E teacherId \in Callers, c \in Candidates :
        \E r \in validateBooking(DB, now, teacherId, c[1], c[2]) :
            /\ last' = [op |-> "validateBooking",
                        args |-> <<teacherId, c[1], c[2]>>,
                        result |-> r]
            /\ UNCHANGED <<now, store, pc, body>>

\* ------------------------------------------------------------------------
\* POST /api/lessons (src/app/api/lessons/route.ts)
\* ------------------------------------------------------------------------

\* The bodies bookLessonSchema accepts, as far as the booking reads them.
Body(teacherId, scheduledAt, duration) ==
    [teacherId |-> teacherId, scheduledAt |-> scheduledAt, duration |-> duration]

Bodies ==
    { Body("t1", At(2, 9, 30), 60), Body("t1", At(2, 10, 0), 30),
      Body("s1", At(2, 10, 0), 30) }

\* 4. the conflict query of the handler
postConflictingLesson(db, b) ==
    LET scheduledDate == b.scheduledAt
        endTime       == b.scheduledAt + b.duration
    IN  {l \in db.lessons :
            /\ l.teacherId = b.teacherId
            /\ l.status \in {"PENDING", "CONFIRMED"}
            /\ l.scheduledAt >= scheduledDate
            /\ l.scheduledAt < endTime}

\* A fresh primary key.
NewId(rows) ==
    IF rows = {} THEN 1
    ELSE 1 + CHOOSE m \in {r.id : r \in rows} : \A r \in rows : r.id <= m

\* 5. prisma.lesson.create
createdLesson(db, b) == Lesson(NewId(db.lessons), b.teacherId, b.scheduledAt, b.duration, "PENDING")

\* The status and error of the response, before the create when there is one.
postLessonsRejection(db, b) ==
    IF b.teacherId \notin Teachers
    THEN [status |-> 400, error |-> "Invalid teacher"]
    ELSE IF postConflictingLesson(db, b) # {}
    THEN [status |-> 400, error |-> "Teacher is not available at this time"]
    ELSE [status |-> 201, error |-> ""]

\* The whole handler, run with no other request in between.
PostLessons ==
    /\ last = Idle
    /\ \E b \in Bodies :
        /\ postLessonsRejection(DB, b).status = 201 => Cardinality(lessons) < MaxLessons
        /\ last' = [op |-> "POST /api/lessons", args |-> <<b>>,
                    result |-> postLessonsRejection(DB, b)]
        /\ lessons' = IF postLessonsRejection(DB, b).status = 201
                      THEN lessons \cup {createdLesson(DB, b)}
                      ELSE lessons
        /\ UNCHANGED <<now, blockedTimes, availabilities, bookingSettings, pc, body>>

NextCore == Tick \/ CallIsTeacherAvailable \/ CallValidateBooking \/ PostLessons

SpecCore == InitCore /\ [][NextCore]_vars


\* ------------------------------------------------------------------------
\* POST /api/lessons, requests in flight together.  The handler awaits its
\* conflict query and then its create; another request may run in between.
\* ------------------------------------------------------------------------

\* ------------------------------------------------------------------------
\* Calls of generateTimeSlots over stored weekly rules.
\* ------------------------------------------------------------------------

MaxSlotRules == 2

\* The startDate and endDate of the calls: two midnights a day apart, two
\* instants inside one day, a range in the past of the later clock values, and
\* an endDate before the startDate.
Ranges ==
    { <<At(1, 0, 0), At(2, 0, 0)>>,
      <<At(2, 10, 30), At(2, 12, 0)>>,
      <<At(1, 0, 0), At(1, 23, 0)>>,
      <<At(2, 12, 0), At(2, 10, 0)>> }

\* parseInt(duration) of the endpoint lets any integer through.
SlotDurations == {-15, 0, 30, 60}

\* The weekly rules of the calls: those above and one that starts at midnight.
SlotRulePool == RulePool \cup {Rule("t1", 6, timeStr(0, 0), timeStr(10, 0), TRUE)}

InitSlots ==
    /\ now = NowValues[1]
    /\ lessons \in {{}, {Lesson(2, "t1", At(2, 10, 0), 60, "CONFIRMED")}}
    /\ blockedTimes \in {{}, {Blocked("t1", At(2, 9, 0), At(2, 12, 0), "Vacation")}}
    /\ availabilities \in UpTo(SlotRulePool, MaxSlotRules)
    /\ \E s \in SettingsPool : bookingSettings = [u \in Users |-> IF u = "t1" THEN s ELSE NoRow]
    /\ pc = [r \in Requests |-> "idle"]
    /\ body = [r \in Requests |-> NoBody]
    /\ last = Idle

CallGenerateTimeSlots ==
    /\ last = Idle
    /\ \E teacherId \in Callers, range \in Ranges, duration \in SlotDurations :
        /\ \E slots \in generateTimeSlots(DB, now, teacherId, range[1], range[2], duration) :
            last' = [op |-> "generateTimeSlots",
                     args |-> <<teacherId, range[1], range[2], duration>>,
                     result |-> slots]
        /\ UNCHANGED <<now, store, pc, body>>

\* A call that never returns: what is observed is that it was made.
HangGenerateTimeSlots ==
    /\ last = Idle
    /\ \E teacherId \in Callers, range \in Ranges, duration \in SlotDurations :
        /\ generateTimeSlotsDiverges(DB, teacherId, range[1], range[2], duration)
        /\ last' = [op |-> "generateTimeSlots: no return",
                    args |-> <<teacherId, range[1], range[2], duration>>,
                    result |-> <<>>]
        /\ UNCHANGED <<now, store, pc, body>>

NextSlots ==
    \/ Tick
    \/ CallGenerateTimeSlots
    \/ HangGenerateTimeSlots
    \/ CallIsTeacherAvailable
    \/ CallValidateBooking

SpecSlots == InitSlots /\ [][NextSlots]_vars

\* ------------------------------------------------------------------------
\* generateICalendar (src/lib/availability.ts)
\* ------------------------------------------------------------------------

\* Text is a sequence of tokens: a piece of literal text, or a formatted date
\* with its characters in d (digits, and the codes below for - T . Z).
Tok(s) == [s |-> s, d |-> <<>>]

DateTok(chars) == [s |-> "date", d |-> chars]

CRLF == Tok("\r\n")

\* A lesson id as text
IdTok(id) == [s |-> "id", d |-> <<id>>]

Dash == <<11>>

LetterT == <<12>>

Dot == <<13>>

LetterZ == <<14>>

\* Days of the year before each month of 1970, the year the clock runs in.
DaysBeforeMonth == <<0, 31, 59, 90, 120, 151, 181, 212, 243, 273, 304, 334>>

\* date.toISOString(): "1970-MM-DDTHH:MM:00.000Z"
toISOString(date) ==
    LET day   == date \div 1440
        month == CHOOSE m \in 1..12 :
                    /\ DaysBeforeMonth[m] <= day
                    /\ m < 12 => day < DaysBeforeMonth[m + 1]
    IN  <<1, 9, 7, 0>> \o Dash \o padStart2(month) \o Dash
            \o padStart2(day - DaysBeforeMonth[month] + 1) \o LetterT
            \o padStart2(getHours(date)) \o Colon \o padStart2(getMinutes(date))
            \o Colon \o <<0, 0>> \o Dot \o <<0, 0, 0>> \o LetterZ

\* date.toISOString().replace(/[-:]/g, '').split('.')[0] + 'Z'
formatDate(date) ==
    LET replaced == SelectSeq(toISOString(date),
                              LAMBDA c : c # Dash[1] /\ c # Colon[1])
        dot      == CHOOSE i \in 1..Len(replaced) :
                       /\ replaced[i] = Dot[1]
                       /\ \A j \in 1..(i - 1) : replaced[j] # Dot[1]
    IN  SubSeq(replaced, 1, dot - 1) \o LetterZ

\* The lines pushed for one lesson.
eventLines(lesson, clock) ==
    LET start == lesson.scheduledAt
        end   == start + lesson.duration
    IN  << <<Tok("BEGIN:VEVENT")>>,
           <<Tok("UID:"), IdTok(lesson.id), Tok("@skillexchange.com")>>,
           <<Tok("DTSTAMP:"), DateTok(formatDate(clock))>>,
           <<Tok("DTSTART:"), DateTok(formatDate(start))>>,
           <<Tok("DTEND:"), DateTok(formatDate(end))>>,
           <<Tok("SUMMARY:")>> \o lesson.title,
           <<Tok("DESCRIPTION:Lesson with ")>> \o lesson.teacher.name,
           <<Tok("ORGANIZER;CN=")>> \o lesson.teacher.name
               \o <<Tok(":mailto:")>> \o lesson.teacher.email,
           <<Tok("ATTENDEE;CN=")>> \o lesson.student.name
               \o <<Tok(":mailto:")>> \o lesson.student.email,
           <<Tok("STATUS:CONFIRMED")>>,
           <<Tok("END:VEVENT")>> >>

\* The for loop over the lessons.
RECURSIVE allEventLines(_, _)
allEventLines(lessonList, clock) ==
    IF lessonList = <<>> THEN <<>>
    ELSE eventLines(Head(lessonList), clock) \o allEventLines(Tail(lessonList), clock)

\* icalLines.join('\r\n')
RECURSIVE join(_)
join(lines) ==
    IF lines = <<>> THEN <<>>
    ELSE IF Len(lines) = 1 THEN lines[1]
    ELSE lines[1] \o <<CRLF>> \o join(Tail(lines))

generateICalendar(lessonList, clock) ==
    join(<< <<Tok("BEGIN:VCALENDAR")>>,
            <<Tok("VERSION:2.0")>>,
            <<Tok("PRODID:-//Skill Exchange Platform//EN")>>,
            <<Tok("CALSCALE:GREGORIAN")>> >>
         \o allEventLines(lessonList, clock)
         \o << <<Tok("END:VCALENDAR")>> >>)

MaxEvents == 2

Person(name, email) == [name |-> <<Tok(name)>>, email |-> <<Tok(email)>>]

CalendarLesson(id, title, scheduledAt, duration) ==
    [id |-> id, title |-> title, scheduledAt |-> scheduledAt, duration |-> duration,
     teacher |-> Person("Ann", "ann@example.com"),
     student |-> Person("Bob", "bob@example.com")]

\* The lessons handed to the export: titles are `skill: title` with the title
\* any text of 5 to 200 characters, line breaks included; one lesson ends in
\* the next month, one on the next day.
CalendarPool ==
    { CalendarLesson(101, <<Tok("Maths: Algebra")>>, At(2, 10, 0), 60),
      CalendarLesson(102, <<Tok("Chess: Openings")>>, At(30, 23, 30), 45),
      CalendarLesson(103, <<Tok("Piano: Scales"), CRLF, Tok("END:VEVENT"), CRLF,
                             Tok("BEGIN:VEVENT")>>, At(2, 10, 0), 30),
      CalendarLesson(104, <<Tok("Yoga: Basics")>>, At(3, 22, 0), 240),
      CalendarLesson(105, <<Tok("Maths: Algebra")>>, At(0, 0, 0), 30) }

LessonLists == UNION {[1..k -> CalendarPool] : k \in 0..MaxEvents}

InitCalendar ==
    /\ now = NowValues[1]
    /\ lessons \in UpTo(LessonPool, MaxLessons)
    /\ blockedTimes = {}
    /\ availabilities = {}
    /\ bookingSettings = [u \in Users |-> NoRow]
    /\ pc = [r \in Requests |-> "idle"]
    /\ body = [r \in Requests |-> NoBody]
    /\ last = Idle

CallGenerateICalendar ==
    /\ last = Idle
    /\ \E lessonList \in LessonLists :
          last' = [op |-> "generateICalendar",
                   args |-> <<lessonList>>,
                   result |-> generateICalendar(lessonList, now)]
    /\ UNCHANGED <<now, store, pc, body>>

\* ------------------------------------------------------------------------
\* GET /api/calendar/export
\* ------------------------------------------------------------------------

\* The rows of the model carry no student: every lesson is booked by "s1".
studentId(lesson) == "s1"

\* A faulty variant: the status filter of the query lost
exportWhere_AnyStatus(lesson, userId, role, startDate, endDate) ==
    /\ lesson.scheduledAt >= startDate
    /\ lesson.scheduledAt <= endDate
    /\ IF role = "teacher" THEN lesson.teacherId = userId
       ELSE IF role = "student" THEN studentId(lesson) = userId
       ELSE lesson.teacherId = userId \/ studentId(lesson) = userId

\* 3. Build query
exportWhere(lesson, userId, role, startDate, endDate) ==
    /\ lesson.scheduledAt >= startDate
    /\ lesson.scheduledAt <= endDate
    /\ lesson.status \in {"PENDING", "CONFIRMED", "COMPLETED"}
    /\ IF role = "teacher" THEN lesson.teacherId = userId
       ELSE IF role = "student" THEN studentId(lesson) = userId
       ELSE lesson.teacherId = userId \/ studentId(lesson) = userId

\* 4. Fetch lessons, orderBy scheduledAt asc: the orders the rows can come in
\* (rows of one scheduledAt in any order).
exportRows(db, userId, role, startDate, endDate) ==
    LET rows == {l \in db.lessons : exportWhere(l, userId, role, startDate, endDate)}
    IN  {f \in [1..Cardinality(rows) -> rows] :
            /\ \A i, j \in 1..Cardinality(rows) : i # j => f[i] # f[j]
            /\ \A i \in 1..(Cardinality(rows) - 1) :
                  f[i].scheduledAt <= f[i + 1].scheduledAt}

\* 5. lessons.map(...): what generateICalendar is given for one row
exportItem(lesson) ==
    [id |-> lesson.id, title |-> <<Tok("Skill: Lesson")>>,
     scheduledAt |-> lesson.scheduledAt, duration |-> lesson.duration,
     teacher |-> Person("Ann", "ann@example.com"),
     student |-> Person("Bob", "bob@example.com")]

\* The texts the endpoint can answer with.
calendarExport(db, clock, userId, role, startDate, endDate) ==
    {generateICalendar([i \in 1..Len(rows) |-> exportItem(rows[i])], clock) :
        rows \in exportRows(db, userId, role, startDate, endDate)}

ExportUsers == {"t1", "t2", "s1"}

ExportRoles == {"teacher", "student", "none"}

\* startDate and endDate: the defaults, now and 30 days later, or a month given.
ExportRanges(clock) == {<<clock, clock + 30 * 1440>>, <<At(0, 0, 0), At(30, 0, 0)>>}

GetCalendarExport ==
    /\ last = Idle
    /\ \E userId \in ExportUsers, role \in ExportRoles, range \in ExportRanges(now) :
        \E text \in calendarExport(DB, now, userId, role, range[1], range[2]) :
            last' = [op |-> "GET /api/calendar/export",
                     args |-> <<userId, role, range[1], range[2]>>,
                     result |-> text]
    /\ UNCHANGED <<now, store, pc, body>>

NextCalendar == Tick \/ CallGenerateICalendar \/ GetCalendarExport

SpecCalendar == InitCalendar /\ [][NextCalendar]_vars


InitBooking ==
    /\ now = NowValues[1]
    /\ lessons \in UpTo(LessonPool, MaxLessons)
    /\ blockedTimes \in {{}, {Blocked("t1", At(2, 9, 0), At(2, 12, 0), "Vacation")}}
    /\ availabilities \in {{}, {Rule("t1", 6, timeStr(9, 0), timeStr(17, 0), TRUE)}}
    /\ \E s \in {NoRow, Settings(30, 1, 1, <<30, 45>>)} :
          bookingSettings = [u \in Users |-> IF u = "t1" THEN s ELSE NoRow]
    /\ pc = [r \in Requests |-> "idle"]
    /\ body = [r \in Requests |-> NoBody]
    /\ last = Idle

Clock ==
    /\ \E i \in 1..(Len(NowValues) - 1) : now = NowValues[i] /\ now' = NowValues[i + 1]
    /\ UNCHANGED <<store, pc, body, last>>

\* Steps 1-4: the body is validated, the teacher looked up, the conflict query run.
PostLessonsCheck(r) ==
    /\ pc[r] = "idle"
    /\ \E b \in Bodies :
        /\ body' = [body EXCEPT ![r] = b]
        /\ pc' = [pc EXCEPT ![r] = IF postLessonsRejection(DB, b).status = 201
                                    THEN "checked" ELSE "rejected"]
    /\ UNCHANGED <<now, store, last>>

\* Step 5: the row is created from what step 4 found.
PostLessonsCreate(r) ==
    /\ pc[r] = "checked"
    /\ lessons' = lessons \cup {createdLesson(DB, body[r])}
    /\ pc' = [pc EXCEPT ![r] = "created"]
    /\ UNCHANGED <<now, blockedTimes, availabilities, bookingSettings, body, last>>

Next ==
    \/ Clock
    \/ \E r \in Requests : PostLessonsCheck(r)
    \/ \E r \in Requests : PostLessonsCreate(r)

Spec == InitBooking /\ [][Next]_vars

\* ------------------------------------------------------------------------
\* /api/availability (src/app/api/availability/route.ts)
\* ------------------------------------------------------------------------

MaxRuleRows == 2

\* A row of Availability with its primary key.
RuleRow(id, userId, dayOfWeek, startTime, endTime, isAvailable) ==
    [id |-> id, userId |-> userId, dayOfWeek |-> dayOfWeek, startTime |-> startTime,
     endTime |-> endTime, isAvailable |-> isAvailable]

\* The rows of User: the two teachers and the student.
UserRows == Users \cup {"s1"}

\* /^([01]\d|2[0-3]):([0-5]\d)$/
matchesTime(text) ==
    /\ Len(text) = 5
    /\ \/ text[1] \in {0, 1} /\ text[2] \in 0..9
       \/ text[1] = 2 /\ text[2] \in 0..3
    /\ text[3] = 10
    /\ text[4] \in 0..5
    /\ text[5] \in 0..9

createAvailabilitySchema(b) ==
    /\ b.dayOfWeek \in 0..6
    /\ matchesTime(b.startTime)
    /\ matchesTime(b.endTime)

\* parseInt(text.split(':')[0]) * 60 + parseInt(text.split(':')[1]) of a text the schema let in
bodyMinutes(text) == Number(split(text)[1]) * 60 + Number(split(text)[2])

\* 4. Check for overlapping availability: the rows findFirst can return
overlapping(db, userId, b) ==
    {r \in db.availabilities :
        /\ r.userId = userId
        /\ r.dayOfWeek = b.dayOfWeek
        /\ \/ TextLte(r.startTime, b.startTime) /\ TextLt(b.startTime, r.endTime)
           \/ TextLt(r.startTime, b.endTime) /\ TextLte(b.endTime, r.endTime)}

\* 3. Verify ownership: !existing || existing.userId !== currentUser.userId
notOwned(existing, userId) == existing = {} \/ \A r \in existing : r.userId # userId

\* A fresh primary key.
NewRuleId(rows) == CHOOSE i \in 1..(Cardinality(rows) + 1) : \A r \in rows : r.id # i

Response(status, text) == [status |-> status, text |-> text]

PostRuleBodies ==
    { [dayOfWeek |-> 6, startTime |-> timeStr(10, 0), endTime |-> timeStr(11, 0)],
      [dayOfWeek |-> 6, startTime |-> timeStr(9, 0), endTime |-> timeStr(12, 0)],
      [dayOfWeek |-> 6, startTime |-> timeStr(11, 0), endTime |-> timeStr(12, 0)],
      [dayOfWeek |-> 6, startTime |-> timeStr(10, 0), endTime |-> timeStr(12, 0)],
      [dayOfWeek |-> 5, startTime |-> timeStr(9, 0), endTime |-> timeStr(12, 0)],
      [dayOfWeek |-> 6, startTime |-> timeStr(11, 0), endTime |-> timeStr(10, 0)],
      [dayOfWeek |-> 7, startTime |-> timeStr(10, 0), endTime |-> timeStr(11, 0)],
      [dayOfWeek |-> 6, startTime |-> <<9>> \o Colon \o <<0, 0>>, endTime |-> timeStr(11, 0)] }

PostAvailability ==
    /\ last = Idle
    /\ \E userId \in Users, b \in PostRuleBodies :
        LET respond(r) == last' = [op |-> "POST /api/availability", args |-> <<userId, b>>,
                                   result |-> r]
        IN  IF ~createAvailabilitySchema(b)
            THEN respond(Response(400, "Validation failed")) /\ UNCHANGED availabilities
            ELSE IF bodyMinutes(b.startTime) >= bodyMinutes(b.endTime)
            THEN respond(Response(400, "End time must be after start time"))
                 /\ UNCHANGED availabilities
            ELSE IF overlapping(DB, userId, b) # {}
            THEN respond(Response(400, "Time slot overlaps with existing availability"))
                 /\ UNCHANGED availabilities
            ELSE /\ Cardinality(availabilities) < MaxRuleRows
                 /\ availabilities' = availabilities \cup
                        {RuleRow(NewRuleId(availabilities), userId, b.dayOfWeek,
                                 b.startTime, b.endTime, TRUE)}
                 /\ respond(Response(201, "Availability created successfully"))
    /\ UNCHANGED <<now, lessons, blockedTimes, bookingSettings, pc, body>>

\* The ids a request can name; 0 is a request without one.
RuleIds == 0..MaxRuleRows

\* const { id, ...updates } = await request.json()
PutUpdates ==
    { [startTime |-> timeStr(9, 0), endTime |-> timeStr(12, 0)],
      [dayOfWeek |-> 5],
      [isAvailable |-> FALSE],
      [userId |-> "t1"],
      [userId |-> "t2"],
      [userId |-> "u9"] }

\* prisma.availability.update({ where: { id }, data: updates })
updated(row, updates) ==
    [f \in DOMAIN row |-> IF f \in DOMAIN updates THEN updates[f] ELSE row[f]]

PutAvailability ==
    /\ last = Idle
    /\ \E userId \in Users, id \in RuleIds, updates \in PutUpdates :
        LET respond(r) == last' = [op |-> "PUT /api/availability",
                                   args |-> <<userId, id, updates>>, result |-> r]
            existing == {r \in availabilities : r.id = id}
        IN  IF id = 0
            THEN respond(Response(400, "Availability ID required")) /\ UNCHANGED availabilities
            ELSE IF notOwned(existing, userId)
            THEN respond(Response(404, "Availability not found")) /\ UNCHANGED availabilities
            ELSE IF "userId" \in DOMAIN updates /\ updates.userId \notin UserRows
            THEN respond(Response(500, "Failed to update availability"))
                 /\ UNCHANGED availabilities
            ELSE /\ availabilities' = (availabilities \ existing) \cup
                        {updated(r, updates) : r \in existing}
                 /\ respond(Response(200, "Availability updated successfully"))
    /\ UNCHANGED <<now, lessons, blockedTimes, bookingSettings, pc, body>>

DeleteAvailability ==
    /\ last = Idle
    /\ \E userId \in Users, id \in RuleIds :
        LET respond(r) == last' = [op |-> "DELETE /api/availability",
                                   args |-> <<userId, id>>, result |-> r]
            existing == {r \in availabilities : r.id = id}
        IN  IF id = 0
            THEN respond(Response(400, "Availability ID required")) /\ UNCHANGED availabilities
            ELSE IF notOwned(existing, userId)
            THEN respond(Response(404, "Availability not found")) /\ UNCHANGED availabilities
            ELSE /\ availabilities' = availabilities \ existing
                 /\ respond(Response(200, "Availability deleted successfully"))
    /\ UNCHANGED <<now, lessons, blockedTimes, bookingSettings, pc, body>>

\* The response is sent: the next request is taken.
Respond ==
    /\ last # Idle
    /\ last' = Idle
    /\ UNCHANGED <<now, store, pc, body>>

InitRules ==
    /\ now = NowValues[1]
    /\ lessons = {}
    /\ blockedTimes = {}
    /\ availabilities = {}
    /\ bookingSettings = [u \in Users |-> NoRow]
    /\ pc = [r \in Requests |-> "idle"]
    /\ body = [r \in Requests |-> NoBody]
    /\ last = Idle

NextRules == PostAvailability \/ PutAvailability \/ DeleteAvailability \/ Respond

SpecRules == InitRules /\ [][NextRules]_vars

\* ------------------------------------------------------------------------
\* Calls of the time utilities
\* ------------------------------------------------------------------------

\* Every "HH:MM" of a day, and texts that are not one.
TimeTexts ==
    {timeStr(hh, mm) : hh \in 0..23, mm \in 0..59}
    \cup { <<>>,
           <<1, 2, 0, 0>>,
           <<1, 2>> \o Colon,
           LetterT \o <<2>> \o Colon \o <<0, 0>>,
           <<1, 2>> \o Colon \o <<3>> \o LetterT,
           timeStr(25, 0),
           timeStr(24, 0),
           timeStr(12, 60),
           timeStr(99, 99),
           <<7>> \o Colon \o <<5>>,
           timeStr(12, 30) \o Colon \o <<4, 5>> }

\* Minutes of a day, and some beyond it.
MinuteCounts == 0..1499

RangeEnds == {0, 30, 60, 90, 120}

\* What a call gave: a value returned, or an error thrown.
Returned(value) == [threw |-> "", value |-> value]

CallTimeToMinutes ==
    /\ last = Idle
    /\ \E time \in TimeTexts :
        last' = [op |-> "timeToMinutes", args |-> <<time>>,
                 result |-> Returned(timeToMinutes(time))]
    /\ UNCHANGED <<now, store, pc, body>>

CallMinutesToTime ==
    /\ last = Idle
    /\ \E minutes \in MinuteCounts :
        last' = [op |-> "minutesToTime", args |-> <<minutes>>,
                 result |-> Returned(minutesToTime(minutes))]
    /\ UNCHANGED <<now, store, pc, body>>

CallTimeRangesOverlap ==
    /\ last = Idle
    /\ \E start1, end1, start2, end2 \in RangeEnds :
        last' = [op |-> "timeRangesOverlap", args |-> <<start1, end1, start2, end2>>,
                 result |-> Returned(timeRangesOverlap(start1, end1, start2, end2))]
    /\ UNCHANGED <<now, store, pc, body>>

NextUtil == CallTimeToMinutes \/ CallMinutesToTime \/ CallTimeRangesOverlap \/ Respond

SpecUtil == InitRules /\ [][NextUtil]_vars

\* ------------------------------------------------------------------------
\* POST /api/blocked-time (src/app/api/blocked-time/route.ts), in flight
\* together with POST /api/lessons.  Both handlers await their query before
\* the create.
\* ------------------------------------------------------------------------

\* The caller and the validated body; reason is null when the body has none.
BlockBodies ==
    { Blocked("t1", At(2, 9, 0), At(2, 12, 0), "Vacation"),
      Blocked("t1", At(2, 10, 0), At(2, 10, 15), NullText),
      Blocked("t1", At(2, 12, 0), At(2, 9, 0), NullText),
      Blocked("t1", At(0, 9, 0), At(0, 12, 0), "Busy"),
      Blocked("t2", At(2, 9, 0), At(2, 12, 0), "Busy") }

\* 4. Check for existing lessons in this time period
conflictingLessons(db, b) ==
    {l \in db.lessons :
        /\ l.teacherId = b.userId
        /\ l.status \in {"PENDING", "CONFIRMED"}
        /\ l.scheduledAt >= b.startTime
        /\ l.scheduledAt < b.endTime}

\* The status and error of the response, before the create when there is one.
postBlockedTimeRejection(db, clock, b) ==
    IF b.startTime >= b.endTime
    THEN [status |-> 400, error |-> "End time must be after start time"]
    ELSE IF b.startTime < clock
    THEN [status |-> 400, error |-> "Cannot block time in the past"]
    ELSE IF conflictingLessons(db, b) # {}
    THEN [status |-> 400, error |-> "Cannot block time with existing lessons"]
    ELSE [status |-> 201, error |-> ""]

\* Steps 1-4: the body is validated, the range checked, the lesson query run.
PostBlockedTimeCheck(r) ==
    /\ pc[r] = "idle"
    /\ \E b \in BlockBodies :
        /\ body' = [body EXCEPT ![r] = b]
        /\ pc' = [pc EXCEPT ![r] = IF postBlockedTimeRejection(DB, now, b).status = 201
                                    THEN "blockChecked" ELSE "blockRejected"]
    /\ UNCHANGED <<now, store, last>>

\* Step 5: the row is created from what step 4 found.
PostBlockedTimeCreate(r) ==
    /\ pc[r] = "blockChecked"
    /\ blockedTimes' = blockedTimes \cup {body[r]}
    /\ pc' = [pc EXCEPT ![r] = "blockCreated"]
    /\ UNCHANGED <<now, lessons, availabilities, bookingSettings, body, last>>

\* Nothing booked and nothing blocked yet.
InitSchedule ==
    /\ now = NowValues[1]
    /\ lessons = {}
    /\ blockedTimes = {}
    /\ availabilities \in {{}, {Rule("t1", 6, timeStr(9, 0), timeStr(17, 0), TRUE)}}
    /\ \E s \in {NoRow, Settings(30, 1, 1, <<30, 45>>)} :
          bookingSettings = [u \in Users |-> IF u = "t1" THEN s ELSE NoRow]
    /\ pc = [r \in Requests |-> "idle"]
    /\ body = [r \in Requests |-> NoBody]
    /\ last = Idle

NextSchedule ==
    \/ Clock
    \/ \E r \in Requests : PostLessonsCheck(r)
    \/ \E r \in Requests : PostLessonsCreate(r)
    \/ \E r \in Requests : PostBlockedTimeCheck(r)
    \/ \E r \in Requests : PostBlockedTimeCreate(r)

SpecSchedule == InitSchedule /\ [][NextSchedule]_vars

\* ------------------------------------------------------------------------
\* POST /api/lessons, one request after another: a request starts when no
\* other is between its query and its create.
\* ------------------------------------------------------------------------

NoneInFlight == \A r \in Requests : pc[r] # "checked"

NextSequential ==
    \/ Clock
    \/ \E r \in Requests : NoneInFlight /\ PostLessonsCheck(r)
    \/ \E r \in Requests : PostLessonsCreate(r)

SpecSequential == InitSchedule /\ [][NextSequential]_vars

\* ------------------------------------------------------------------------
\* Claims about isTeacherAvailable
\* ------------------------------------------------------------------------

IsCall(op) == last.op = op

AnotherLesson == [text |-> "Teacher has another lesson at this time", args |-> <<>>]

OutsideAvailability == [text |-> "Outside teacher's regular availability", args |-> <<>>]

DefaultBlockedText == "Teacher is unavailable at this time"

ActiveOverlapping(teacherId, startTime, endTime) ==
    {l \in lessons :
        /\ l.teacherId = teacherId
        /\ l.status \in {"PENDING", "CONFIRMED"}
        /\ timeRangesOverlap(l.scheduledAt, l.scheduledAt + l.duration, startTime, endTime)}

\* C1: whenever a PENDING or CONFIRMED lesson of the teacher overlaps the candidate
\* interval (half-open test), isTeacherAvailable answers unavailable with the
\* "another lesson" reason, also for a lesson that began before the candidate's
\* start and is still running.
C1_OverlapIsRejected ==
    IsCall("isTeacherAvailable") =>
        (ActiveOverlapping(last.args[1], last.args[2], last.args[3]) # {}
            => last.result = [available |-> FALSE, reason |-> AnotherLesson])

NeedNotice(row) ==
    [text |-> "Need at least N hours advance notice", args |-> <<row.minAdvanceHours>>]

BeyondHorizon(row) ==
    [text |-> "Can only book up to N days in advance", args |-> <<row.maxAdvanceDays>>]

\* The five checks of the chain, each said to fail on its own terms.
FailsLesson(t, s, e) == conflictingLesson(DB, t, s, e) # {}

FailsBlocked(t, s, e) == blockedTime(DB, t, s, e) # {}

FailsWeekly(t, s, e) == availability(DB, t, s, e) = {}

FailsNotice(t, s) ==
    bookingSettings[t] # NoRow /\ (s - now) < bookingSettings[t].minAdvanceHours * 60

FailsHorizon(t, s) ==
    bookingSettings[t] # NoRow /\ (s - now) > bookingSettings[t].maxAdvanceDays * 24 * 60

\* C4: isTeacherAvailable answers available, with no reason, exactly when no check
\* of the chain fails; otherwise the reason is that of the first failing check in
\* the order lesson conflict, blocked time, weekly rule, advance notice, horizon.
C4_FirstFailingCheckWins ==
    IsCall("isTeacherAvailable") =>
        LET t == last.args[1]
            s == last.args[2]
            e == last.args[3]
            r == last.result
        IN  /\ r.available <=>
                  ~(FailsLesson(t, s, e) \/ FailsBlocked(t, s, e) \/ FailsWeekly(t, s, e)
                    \/ FailsNotice(t, s) \/ FailsHorizon(t, s))
            /\ r.available => r.reason = Undefined
            /\ FailsLesson(t, s, e) => r.reason = AnotherLesson
            /\ (~FailsLesson(t, s, e) /\ FailsBlocked(t, s, e)) =>
                  \E b \in blockedTime(DB, t, s, e) :
                      r.reason = [text |-> OrText(b.reason, DefaultBlockedText), args |-> <<>>]
            /\ (~FailsLesson(t, s, e) /\ ~FailsBlocked(t, s, e) /\ FailsWeekly(t, s, e)) =>
                  r.reason = OutsideAvailability
            /\ (~FailsLesson(t, s, e) /\ ~FailsBlocked(t, s, e) /\ ~FailsWeekly(t, s, e)
                /\ FailsNotice(t, s)) =>
                  r.reason = NeedNotice(bookingSettings[t])
            /\ (~FailsLesson(t, s, e) /\ ~FailsBlocked(t, s, e) /\ ~FailsWeekly(t, s, e)
                /\ ~FailsNotice(t, s) /\ FailsHorizon(t, s)) =>
                  r.reason = BeyondHorizon(bookingSettings[t])

\* All five checks fail at once and the lesson conflict is the one reported.
C4_Witness ==
    /\ IsCall("isTeacherAvailable")
    /\ FailsLesson(last.args[1], last.args[2], last.args[3])
    /\ FailsBlocked(last.args[1], last.args[2], last.args[3])
    /\ FailsWeekly(last.args[1], last.args[2], last.args[3])
    /\ FailsNotice(last.args[1], last.args[2])
    /\ FailsHorizon(last.args[1], last.args[2])
    /\ last.result.reason = AnotherLesson

IsSet(text) == text # NullText /\ text # ""

Containing(t, s, e) ==
    {b \in blockedTimes : b.userId = t /\ b.startTime <= s /\ b.endTime >= e}

PartlyOverlapping(t, s, e) ==
    {b \in blockedTimes :
        /\ b.userId = t
        /\ timeRangesOverlap(b.startTime, b.endTime, s, e)
        /\ ~(b.startTime <= s /\ b.endTime >= e)}

BlockedTexts == {DefaultBlockedText} \cup {b.reason : b \in BlockedPool}

\* C5: with no lesson conflict found, the call is rejected at the blocked-time step
\* exactly when a blocked time of the teacher has startTime <= start and
\* endTime >= end; the reason is then that row's own reason when it has one (a
\* null or empty reason counts as none), else the default text.  A blocked time
\* that only partly overlaps the candidate does not reject it.
C5_BlockedByContainmentOnly ==
    (IsCall("isTeacherAvailable")
     /\ conflictingLesson(DB, last.args[1], last.args[2], last.args[3]) = {}) =>
        LET t == last.args[1]
            s == last.args[2]
            e == last.args[3]
            r == last.result
        IN  IF Containing(t, s, e) # {}
            THEN /\ ~r.available
                 /\ \E b \in Containing(t, s, e) :
                        r.reason = [text |-> IF IsSet(b.reason) THEN b.reason
                                             ELSE DefaultBlockedText,
                                    args |-> <<>>]
            ELSE r.reason.text \notin BlockedTexts

\* A blocked time cuts into the candidate without containing it, and the call
\* answers available.
C5_Witness ==
    /\ IsCall("isTeacherAvailable")
    /\ PartlyOverlapping(last.args[1], last.args[2], last.args[3]) # {}
    /\ Containing(last.args[1], last.args[2], last.args[3]) = {}
    /\ last.result.available

Covering(t, s, e) ==
    {a \in availabilities :
        /\ a.userId = t
        /\ a.isAvailable
        /\ a.dayOfWeek = getDay(s)
        /\ timeToMinutes(a.startTime) <= getHours(s) * 60 + getMinutes(s)
        /\ timeToMinutes(a.endTime) >= getHours(e) * 60 + getMinutes(e)}

\* C6: when the lesson-conflict and blocked-time steps pass, the answer is
\* "outside regular availability" exactly when the teacher has no active rule for
\* the day of week of start with rule.start <= HH:MM(start) and
\* rule.end >= HH:MM(end).  (Rule times are zero-padded HH:MM, as the create
\* schema requires.)
C6_WeeklyRuleMembership ==
    (IsCall("isTeacherAvailable")
     /\ conflictingLesson(DB, last.args[1], last.args[2], last.args[3]) = {}
     /\ blockedTime(DB, last.args[1], last.args[2], last.args[3]) = {}) =>
        ((last.result.reason = OutsideAvailability)
            <=> (Covering(last.args[1], last.args[2], last.args[3]) = {}))

\* An inactive rule of the right day covers the candidate, and the call still
\* answers "outside regular availability".
C6_Witness ==
    /\ IsCall("isTeacherAvailable")
    /\ last.result.reason = OutsideAvailability
    /\ \E a \in availabilities :
          /\ a.userId = last.args[1]
          /\ ~a.isAvailable
          /\ a.dayOfWeek = getDay(last.args[2])
          /\ timeToMinutes(a.startTime) <= getHours(last.args[2]) * 60 + getMinutes(last.args[2])
          /\ timeToMinutes(a.endTime) >= getHours(last.args[3]) * 60 + getMinutes(last.args[3])

StepsOneToThreePass(t, s, e) ==
    /\ conflictingLesson(DB, t, s, e) = {}
    /\ blockedTime(DB, t, s, e) = {}
    /\ availability(DB, t, s, e) # {}

\* C7: with a settings row and steps 1-3 passing, the call answers available
\* exactly when minAdvanceHours hours <= start - now <= maxAdvanceDays days; below
\* the minimum the reason names minAdvanceHours, above the maximum it names
\* maxAdvanceDays, and when both bounds are violated the advance-notice reason wins.
C7_AdvanceWindow ==
    (IsCall("isTeacherAvailable")
     /\ StepsOneToThreePass(last.args[1], last.args[2], last.args[3])
     /\ bookingSettings[last.args[1]] # NoRow) =>
        LET row == bookingSettings[last.args[1]]
            d   == last.args[2] - now
            r   == last.result
        IN  /\ r.available <=> (row.minAdvanceHours * 60 <= d /\ d <= row.maxAdvanceDays * 24 * 60)
            /\ d < row.minAdvanceHours * 60 => r.reason = NeedNotice(row)
            /\ (d >= row.minAdvanceHours * 60 /\ d > row.maxAdvanceDays * 24 * 60) =>
                  r.reason = BeyondHorizon(row)

\* Both bounds are violated (minAdvanceHours > 24 * maxAdvanceDays) and the
\* advance-notice reason is returned.
C7_Witness ==
    /\ IsCall("isTeacherAvailable")
    /\ StepsOneToThreePass(last.args[1], last.args[2], last.args[3])
    /\ bookingSettings[last.args[1]] # NoRow
    /\ last.args[2] - now < bookingSettings[last.args[1]].minAdvanceHours * 60
    /\ last.args[2] - now > bookingSettings[last.args[1]].maxAdvanceDays * 24 * 60
    /\ last.result.reason = NeedNotice(bookingSettings[last.args[1]])

\* The database with the teacher's settings row holding the documented defaults.
DBWithDefaults(teacherId) ==
    [DB EXCEPT !.bookingSettings = [DB.bookingSettings EXCEPT ![teacherId] = DefaultSettings]]

\* C8: a teacher without a settings row is treated exactly like one whose row
\* holds the documented defaults: isTeacherAvailable, validateBooking and
\* generateTimeSlots return what they return on the database with such a row.
C8_NoSettingsMeansDefaults ==
    /\ (IsCall("generateTimeSlots") /\ bookingSettings[last.args[1]] = NoRow) =>
          last.result \in generateTimeSlots(DBWithDefaults(last.args[1]), now,
                                             last.args[1], last.args[2], last.args[3],
                                             last.args[4])
    /\ (IsCall("isTeacherAvailable") /\ bookingSettings[last.args[1]] = NoRow) =>
          last.result \in isTeacherAvailable(DBWithDefaults(last.args[1]), now,
                                              last.args[1], last.args[2], last.args[3])
    /\ (IsCall("validateBooking") /\ bookingSettings[last.args[1]] = NoRow) =>
          last.result \in validateBooking(DBWithDefaults(last.args[1]), now,
                                           last.args[1], last.args[2], last.args[3])

\* The database without the lessons that are COMPLETED, CANCELLED or EXPIRED.
DBActiveOnly ==
    [DB EXCEPT !.lessons = {l \in lessons : l.status \in {"PENDING", "CONFIRMED"}}]

Inactive(t, s, e) ==
    {l \in lessons :
        /\ l.teacherId = t
        /\ l.status \in {"COMPLETED", "CANCELLED", "EXPIRED"}
        /\ timeRangesOverlap(l.scheduledAt, l.scheduledAt + l.duration, s, e)}

\* C9: lessons that are COMPLETED, CANCELLED or EXPIRED never count as conflicts:
\* isTeacherAvailable answers as it does on the database without them, and a
\* POST /api/lessons that is rejected is rejected on that database too.
C9_OnlyActiveLessonsConflict ==
    /\ IsCall("isTeacherAvailable") =>
          last.result \in isTeacherAvailable(DBActiveOnly, now,
                                              last.args[1], last.args[2], last.args[3])
    /\ (IsCall("POST /api/lessons") /\ last.result.status = 400) =>
          last.result = postLessonsRejection(DBActiveOnly, last.args[1])

\* An inactive lesson of the teacher lies in the candidate interval and the call
\* answers available.
C9_Witness ==
    /\ IsCall("isTeacherAvailable")
    /\ Inactive(last.args[1], last.args[2], last.args[3]) # {}
    /\ last.result.available

\* ------------------------------------------------------------------------
\* Claims about POST /api/lessons
\* ------------------------------------------------------------------------

BodiesOverlap(a, b) ==
    /\ a.teacherId = b.teacherId
    /\ timeRangesOverlap(a.scheduledAt, a.scheduledAt + a.duration,
                         b.scheduledAt, b.scheduledAt + b.duration)

\* C2: of two POST /api/lessons requests in flight together for the same teacher
\* and the same or overlapping intervals, at most one creates a lesson.
C2_AtMostOneCreates ==
    \A r1, r2 \in Requests :
        (r1 # r2 /\ pc[r1] = "created" /\ pc[r2] = "created")
            => ~BodiesOverlap(body[r1], body[r2])

\* C3: POST /api/lessons creates a lesson only for a request that validateBooking
\* accepts in the database of that moment.
C3_CreatedOnlyIfValid ==
    [][\A r \in Requests :
          (pc[r] = "checked" /\ pc'[r] = "created") =>
              \A v \in validateBooking(DB, now, body[r].teacherId, body[r].scheduledAt,
                                       body[r].duration) : v.valid]_vars


\* ------------------------------------------------------------------------
\* Generated slots
\* ------------------------------------------------------------------------

\* The buffer of the teacher's policy, 15 when there is no policy.
PolicyBuffer(teacherId) ==
    IF bookingSettings[teacherId] = NoRow THEN 15
    ELSE bookingSettings[teacherId].bufferMinutes

\* Each slot lasts `duration`, and two consecutive slots of one day start at
\* least duration + buffer apart.
SlotsShape(slots, teacherId, duration) ==
    /\ \A i \in 1..Len(slots) : slots[i].endTime - slots[i].startTime = duration
    /\ \A i \in 1..(Len(slots) - 1) :
          startOfDay(slots[i].startTime) = startOfDay(slots[i + 1].startTime)
          => slots[i + 1].startTime - slots[i].startTime
                >= duration + PolicyBuffer(teacherId)

\* C10 as stated: every slot generateTimeSlots returns lies within
\* [startDate, endDate], lasts exactly `duration`, and consecutive slots of one
\* day start at least duration + buffer apart.
C10_SlotsWithinRange ==
    IsCall("generateTimeSlots") =>
        /\ \A i \in 1..Len(last.result) :
              /\ last.args[2] <= last.result[i].startTime
              /\ last.result[i].endTime <= last.args[3]
        /\ SlotsShape(last.result, last.args[1], last.args[4])

\* C10, amended: every slot generateTimeSlots returns lasts exactly `duration`;
\* and, for a duration of zero or more, every slot starts on a local calendar day
\* from the day of startDate up to the last day whose midnight is not after
\* endDate, and consecutive slots of one day start at least duration + buffer
\* apart.
C10_SlotsWithinDays ==
    IsCall("generateTimeSlots") =>
        /\ \A i \in 1..Len(last.result) :
              last.result[i].endTime - last.result[i].startTime = last.args[4]
        /\ last.args[4] >= 0 =>
              /\ \A i \in 1..Len(last.result) :
                    /\ startOfDay(last.args[2]) <= last.result[i].startTime
                    /\ startOfDay(last.result[i].startTime) <= last.args[3]
              /\ SlotsShape(last.result, last.args[1], last.args[4])

\* A call whose startDate is not a midnight returned several slots of one day,
\* one of them before startDate and one of them ending after endDate.
C10_Witness ==
    /\ IsCall("generateTimeSlots")
    /\ last.args[2] % 1440 # 0
    /\ \E i \in 1..Len(last.result) : last.result[i].startTime < last.args[2]
    /\ \E i \in 1..Len(last.result) : last.result[i].endTime > last.args[3]
    /\ \E i \in 1..(Len(last.result) - 1) :
          startOfDay(last.result[i].startTime) = startOfDay(last.result[i + 1].startTime)

\* The step the spec gives the loop: duration + the policy's buffer, 15 without
\* a policy.
PolicyStep(teacherId, duration) == duration + PolicyBuffer(teacherId)

\* C11: generateTimeSlots steps slot starts by exactly duration + the buffer of
\* the stored policy, a buffer of 0 included; 15 is used only without a policy.
C11_StepUsesPolicyBuffer ==
    IsCall("generateTimeSlots") =>
        \A i \in 1..(Len(last.result) - 1) :
            startOfDay(last.result[i].startTime) = startOfDay(last.result[i + 1].startTime)
            => last.result[i + 1].startTime - last.result[i].startTime
                  = PolicyStep(last.args[1], last.args[4])

\* C12: every call of generateTimeSlots returns.
C12_GenerateTimeSlotsReturns == ~IsCall("generateTimeSlots: no return")

\* C13: no slot generateTimeSlots returns starts before the instant of the call.
C13_NoPastSlots ==
    IsCall("generateTimeSlots") =>
        \A i \in 1..Len(last.result) : last.result[i].startTime >= now

\* The range began before the call, the one active rule of today opened before
\* the call with room for a slot, and the list returned is not empty: the slots
\* of today before the call were left out.
C13_Witness ==
    /\ IsCall("generateTimeSlots")
    /\ last.args[2] < now
    /\ startOfDay(now) <= last.args[3]
    /\ last.args[4] > 0
    /\ \E a \in activeRules(DB, last.args[1]) :
          /\ {b \in activeRules(DB, last.args[1]) : b.dayOfWeek = a.dayOfWeek} = {a}
          /\ a.dayOfWeek = getDay(now)
          /\ startOfDay(now) + timeToMinutes(a.startTime) < now
          /\ timeToMinutes(a.startTime) + last.args[4] <= timeToMinutes(a.endTime)
    /\ Len(last.result) > 0

HasActiveRule(teacherId) ==
    \E a \in availabilities : a.userId = teacherId /\ a.isAvailable = TRUE

\* C14: without a weekly rule with isAvailable = true, generateTimeSlots returns
\* the empty list, whatever else is stored.
C14_NoActiveRuleNoSlots ==
    /\ (IsCall("generateTimeSlots") /\ ~HasActiveRule(last.args[1])) =>
          last.result = <<>>
    /\ IsCall("generateTimeSlots: no return") => HasActiveRule(last.args[1])

\* The teacher has an inactive rule, a blocked time and a settings row, no
\* active rule, and the call returned the empty list.
C14_Witness ==
    /\ IsCall("generateTimeSlots")
    /\ ~HasActiveRule(last.args[1])
    /\ \E a \in availabilities : a.userId = last.args[1] /\ a.isAvailable = FALSE
    /\ \E b \in blockedTimes : b.userId = last.args[1]
    /\ bookingSettings[last.args[1]] # NoRow
    /\ last.result = <<>>

\* C15: the list generateTimeSlots returns is sorted by startTime, strictly.
C15_SlotsSorted ==
    IsCall("generateTimeSlots") =>
        \A i \in 1..(Len(last.result) - 1) :
            last.result[i].startTime < last.result[i + 1].startTime

\* ------------------------------------------------------------------------
\* Claims about validateBooking
\* ------------------------------------------------------------------------

PastText == "Cannot book lessons in the past"

DurationText == "Duration must be one of: L minutes"

HourText == "Please select a time between 6 AM and 11 PM"

\* The check an error comes from: 1 past, 2 availability, 3 duration, 4 hour.
ErrorClass(e) ==
    IF e.text = PastText THEN 1
    ELSE IF e.text = DurationText THEN 3
    ELSE IF e.text = HourText THEN 4
    ELSE 2

HasError(errors, class) == \E i \in 1..Len(errors) : ErrorClass(errors[i]) = class

\* A start before now, duration 45 and a policy allowing 30, 60, 90 and 120.
PastWithDuration45 ==
    /\ IsCall("validateBooking")
    /\ last.args[2] < now
    /\ last.args[3] = 45
    /\ bookingSettings[last.args[1]] # NoRow
    /\ bookingSettings[last.args[1]].allowedDurations = <<30, 60, 90, 120>>

\* C16 as stated: for a start before now with duration 45 and a policy allowing
\* 30, 60, 90 and 120, validateBooking returns valid = false with exactly two
\* errors, the past error and the allowed-durations error.
C16_ExactlyTwoErrors ==
    PastWithDuration45 =>
        /\ ~last.result.valid
        /\ Len(last.result.errors) = 2
        /\ ErrorClass(last.result.errors[1]) = 1
        /\ ErrorClass(last.result.errors[2]) = 3

\* C16, amended: in that case validateBooking returns valid = false with the past
\* error, then the reason of isTeacherAvailable (which refuses every past start
\* of a teacher with a policy), then the allowed-durations error, then the hour
\* error exactly when the hour is below 6: three or four errors, none dropped.
C16_EveryErrorReported ==
    PastWithDuration45 =>
        /\ ~last.result.valid
        /\ Len(last.result.errors) = (IF (last.args[2] % 1440) < 6 * 60 THEN 4 ELSE 3)
        /\ \A i \in 1..Len(last.result.errors) : ErrorClass(last.result.errors[i]) = i
        /\ last.result.errors[3].args = <<30, 60, 90, 120>>

C16_Witness ==
    /\ PastWithDuration45
    /\ Len(last.result.errors) = 3

\* C17: validateBooking returns valid = true exactly when it returns no error;
\* the errors come in the order past, availability, duration, hour; the
\* availability error is a reason isTeacherAvailable gives; and the duration
\* error is there exactly when a policy exists and does not list the duration.
C17_ErrorsInOrder ==
    IsCall("validateBooking") =>
        LET errors == last.result.errors
            policy == bookingSettings[last.args[1]]
        IN  /\ last.result.valid <=> errors = <<>>
            /\ \A i \in 1..(Len(errors) - 1) :
                  ErrorClass(errors[i]) < ErrorClass(errors[i + 1])
            /\ \A i \in 1..Len(errors) :
                  ErrorClass(errors[i]) = 2 =>
                      \E v \in isTeacherAvailable(DB, now, last.args[1], last.args[2],
                                                  last.args[2] + last.args[3]) :
                          ~v.available /\ v.reason = errors[i]
            /\ HasError(errors, 3) <=>
                  (policy # NoRow /\ \A i \in 1..Len(policy.allowedDurations) :
                                        policy.allowedDurations[i] # last.args[3])

\* A call that returned all four errors.
C17_Witness ==
    /\ IsCall("validateBooking")
    /\ Len(last.result.errors) = 4
    /\ ~last.result.valid

\* C18: validateBooking reports the hour error exactly when the hour of day of
\* the start is below 6 or above 23, so never for a start within hour 23.
C18_HourBound ==
    IsCall("validateBooking") =>
        LET hour == (last.args[2] % 1440) \div 60
        IN  /\ HasError(last.result.errors, 4) <=> (hour < 6 \/ hour > 23)
            /\ hour = 23 => ~HasError(last.result.errors, 4)

\* A start of 23:30 without the hour error.
C18_Witness ==
    /\ IsCall("validateBooking")
    /\ last.args[2] % 1440 = 23 * 60 + 30
    /\ ~HasError(last.result.errors, 4)

\* ------------------------------------------------------------------------
\* Frame
\* ------------------------------------------------------------------------

CoreCalls ==
    {"isTeacherAvailable", "generateTimeSlots", "generateTimeSlots: no return",
     "validateBooking"}

\* C19: a call of isTeacherAvailable, generateTimeSlots or validateBooking leaves
\* the lessons, weekly rules, blocked times and booking settings as they were,
\* whatever it answers.
C19_CoreMakesNoWrites ==
    [][(last' # last /\ last'.op \in CoreCalls) => store' = store]_vars

\* validateBooking has answered valid over a database with a lesson, a blocked
\* time, a weekly rule and a settings row.
C19_Witness ==
    /\ IsCall("validateBooking")
    /\ last.result.valid
    /\ lessons # {}
    /\ blockedTimes # {}
    /\ availabilities # {}
    /\ bookingSettings[last.args[1]] # NoRow

\* ------------------------------------------------------------------------
\* Claims about generateICalendar
\* ------------------------------------------------------------------------

\* The positions of the line breaks of a text, with both ends.
Breaks(text) ==
    {0} \cup {i \in 1..Len(text) : text[i] = CRLF} \cup {Len(text) + 1}

\* The k-th smallest element of a set of numbers.
Nth(S, k) == CHOOSE x \in S : Cardinality({y \in S : y < x}) = k - 1

\* The lines a reader of the text sees.
TextLines(text) ==
    [k \in 1..(Cardinality(Breaks(text)) - 1) |->
        SubSeq(text, Nth(Breaks(text), k) + 1, Nth(Breaks(text), k + 1) - 1)]

LineNumbers(lines, s) == {k \in 1..Len(lines) : lines[k] = <<Tok(s)>>}

\* The instant a formatted date YYYYMMDDTHHMMSSZ of 1970 stands for, in minutes.
DateValue(chars) ==
    (DaysBeforeMonth[chars[5] * 10 + chars[6]] + chars[7] * 10 + chars[8] - 1) * 1440
        + (chars[10] * 10 + chars[11]) * 60 + chars[12] * 10 + chars[13]

\* C20: the text generateICalendar returns for n lessons is one header block,
\* then n events in the order of the lessons, then one footer; the i-th event
\* has the UID of lesson i and ends `duration` minutes after it starts.
C20_CalendarStructure ==
    IsCall("generateICalendar") =>
        LET lessonList == last.args[1]
            lines  == TextLines(last.result)
            begins == LineNumbers(lines, "BEGIN:VEVENT")
            ends   == LineNumbers(lines, "END:VEVENT")
        IN  /\ LineNumbers(lines, "BEGIN:VCALENDAR") = {1}
            /\ LineNumbers(lines, "VERSION:2.0") = {2}
            /\ LineNumbers(lines, "PRODID:-//Skill Exchange Platform//EN") = {3}
            /\ LineNumbers(lines, "CALSCALE:GREGORIAN") = {4}
            /\ LineNumbers(lines, "END:VCALENDAR") = {Len(lines)}
            /\ Cardinality(begins) = Len(lessonList)
            /\ Cardinality(ends) = Len(lessonList)
            /\ \A i \in 1..Len(lessonList) :
                  LET b == Nth(begins, i)
                  IN  /\ Nth(ends, i) = b + 10
                      /\ lines[b + 1] = <<Tok("UID:"), IdTok(lessonList[i].id),
                                          Tok("@skillexchange.com")>>
                      /\ lines[b + 3][1] = Tok("DTSTART:")
                      /\ lines[b + 4][1] = Tok("DTEND:")
                      /\ DateValue(lines[b + 4][2].d) - DateValue(lines[b + 3][2].d)
                            = lessonList[i].duration

\* The ids in the UID lines of a text.
ExportedIds(text) ==
    {l.id : l \in {m \in lessons :
        \E k \in 1..Len(TextLines(text)) :
            TextLines(text)[k] = <<Tok("UID:"), IdTok(m.id), Tok("@skillexchange.com")>>}}

WindowsOverlap(r1, r2) ==
    /\ timeToMinutes(r1.startTime) < timeToMinutes(r2.endTime)
    /\ timeToMinutes(r2.startTime) < timeToMinutes(r1.endTime)

\* C22: after any sequence of POST and PUT /api/availability, no two stored
\* rules of one user for the same day of the week have overlapping windows.
C22_NoOverlappingRules ==
    \A r1, r2 \in availabilities :
        (r1.id # r2.id /\ r1.userId = r2.userId /\ r1.dayOfWeek = r2.dayOfWeek)
        => ~WindowsOverlap(r1, r2)

RulesOf(rows, userId) == {r \in rows : r.userId = userId}

AvailabilityOps == {"POST /api/availability", "PUT /api/availability", "DELETE /api/availability"}

\* C30: a POST, PUT or DELETE /api/availability of user A, whatever its body,
\* leaves the set of rules owned by every other user B as it was: none is
\* modified or deleted, and none is added.
C30_OwnershipIsolation ==
    [][\A B \in UserRows :
          (last'.op \in AvailabilityOps /\ last'.args[1] # B)
          => RulesOf(availabilities', B) = RulesOf(availabilities, B)]_vars

\* ------------------------------------------------------------------------
\* Claims about the time utilities
\* ------------------------------------------------------------------------

\* A conforming "HH:MM": two digits, a colon, two digits, hour <= 23, minute <= 59.
Conforming(text) ==
    /\ Len(text) = 5
    /\ text[3] = 10
    /\ \A i \in {1, 2, 4, 5} : text[i] \in 0..9
    /\ 10 * text[1] + text[2] <= 23
    /\ 10 * text[4] + text[5] <= 59

\* C23: for every text that is not a conforming "HH:MM", timeToMinutes fails
\* with a FormatError and returns no number.
C23_MalformedFails ==
    (IsCall("timeToMinutes") /\ ~Conforming(last.args[1]))
    => last.result.threw = "FormatError"

\* C24: minutesToTime(timeToMinutes(s)) = s for every conforming "HH:MM" s,
\* and timeToMinutes(minutesToTime(m)) = m for every m in 0..1439.
C24_RoundTrip ==
    /\ (IsCall("timeToMinutes") /\ Conforming(last.args[1]))
       => /\ last.result.threw = ""
          /\ minutesToTime(last.result.value) = last.args[1]
    /\ (IsCall("minutesToTime") /\ last.args[1] \in 0..1439)
       => /\ last.result.threw = ""
          /\ Conforming(last.result.value)
          /\ timeToMinutes(last.result.value) = last.args[1]

\* "09:05" is parsed to 545: a text that needs both paddings to come back.
C24_Witness ==
    /\ IsCall("timeToMinutes")
    /\ last.args[1] = <<0, 9, 10, 0, 5>>
    /\ last.result.value = 545

\* C25: timeRangesOverlap(s1, e1, s2, e2) is true exactly when s1 < e2 and
\* s2 < e1, it gives the same for the two intervals swapped, and touching
\* intervals do not overlap.
C25_OverlapTest ==
    IsCall("timeRangesOverlap") =>
        LET s1 == last.args[1]
            e1 == last.args[2]
            s2 == last.args[3]
            e2 == last.args[4]
        IN  /\ last.result.value = (s1 < e2 /\ s2 < e1)
            /\ last.result.value = timeRangesOverlap(s2, e2, s1, e1)
            /\ (e1 = s2 /\ s1 < e1 /\ s2 < e2) => last.result.value = FALSE

\* [0,60) and [60,120) do not overlap.
C25_Witness ==
    /\ IsCall("timeRangesOverlap")
    /\ last.args = <<0, 60, 60, 120>>
    /\ last.result.value = FALSE

\* ------------------------------------------------------------------------
\* Claims about bookings and blocked times
\* ------------------------------------------------------------------------

ActiveLessons == {l \in lessons : l.status \in {"PENDING", "CONFIRMED"}}

\* C26: after POST /api/lessons requests run one after another, no two
\* PENDING or CONFIRMED lessons of one teacher have overlapping intervals
\* [scheduledAt, scheduledAt + duration).
C26_SequentialNoOverlap ==
    \A l1, l2 \in ActiveLessons :
        (l1.id # l2.id /\ l1.teacherId = l2.teacherId)
        => ~(/\ l1.scheduledAt < l2.scheduledAt + l2.duration
             /\ l2.scheduledAt < l1.scheduledAt + l1.duration)

\* C29: under any interleaving of POST /api/blocked-time and POST /api/lessons,
\* no PENDING or CONFIRMED lesson starts inside a stored blocked range
\* [startTime, endTime) of its teacher.
C29_NoLessonInsideBlock ==
    \A l \in ActiveLessons, b \in blockedTimes :
        b.userId = l.teacherId
        => ~(b.startTime <= l.scheduledAt /\ l.scheduledAt < b.endTime)

\* ------------------------------------------------------------------------
\* Claims about the weekly window and the slot list
\* ------------------------------------------------------------------------

\* The active rules of t for the day of s whose window, laid on that day,
\* holds the whole of [s, e].
WindowsHolding(t, s, e) ==
    {a \in availabilities :
        /\ a.userId = t
        /\ a.isAvailable
        /\ a.dayOfWeek = getDay(s)
        /\ startOfDay(s) + timeToMinutes(a.startTime) <= s
        /\ e <= startOfDay(s) + timeToMinutes(a.endTime)}

\* C27: whenever isTeacherAvailable answers available = true, the whole
\* candidate [start, end] lies inside the window of one active weekly rule on
\* the day of the week of start; a candidate that ends on the next day is
\* never reported available.
C27_AvailableInsideWindow ==
    (IsCall("isTeacherAvailable") /\ last.result.available)
    => /\ WindowsHolding(last.args[1], last.args[2], last.args[3]) # {}
       /\ startOfDay(last.args[3]) = startOfDay(last.args[2])

\* C28: every slot generateTimeSlots returns with available = true is accepted
\* by validateBooking for the same teacher, start and duration, at the same
\* instant on the same store.
C28_ListedSlotsAreBookable ==
    IsCall("generateTimeSlots") =>
        \A i \in 1..Len(last.result) :
            last.result[i].available
            => \E v \in validateBooking(DB, now, last.args[1],
                                        last.result[i].startTime, last.args[4]) : v.valid

=============================================================================
